---- MODULE Spec2Model ----
(***************************************************************************)
(* pnch: a command-line time tracker.  Every invocation of the program     *)
(* (`run` in src/src/main.rs) loads the tag table, the punch store and the *)
(* configuration from three files, executes one command and rewrites the   *)
(* files.  The files are modelled as byte sequences with the fixed-width   *)
(* record layout of the codec; the in-memory stores are the values the     *)
(* invocation held when it ended.                                          *)
(***************************************************************************)
EXTENDS Integers, Sequences, FiniteSets, TLC

VARIABLES
    tagsDb,     \* bytes of tags.db
    pnchsDb,    \* bytes of pnchs.db
    configDb,   \* bytes of config.db
    clock,      \* index of the current local day in Days
    pc,         \* "idle": no process; "ran": `run` has returned, the process
                \* has not exited yet
    cmd,        \* the command line of the invocation
    err,        \* its outcome: "ok" or the GlobalError `run` returned
    loaded,     \* Pnchs as Pnchs::load returned it
    tags,       \* Tags when `run` returned
    pnchs       \* Pnchs when `run` returned

vars == <<tagsDb, pnchsDb, configDb, clock, pc, cmd, err, loaded, tags, pnchs>>

(***************************************************************************)
(* Bounds of the model.                                                    *)
(***************************************************************************)
\* the In command is not offered once the store holds this many punches
MaxPnchs == 3

(***************************************************************************)
(* Option<T>: None is the empty sequence, Some(v) the one-element one.     *)
(***************************************************************************)
None == <<>>
Some(v) == <<v>>
IsSome(o) == o # <<>>
IsNone(o) == o = <<>>
Unwrap(o) == o[1]

(***************************************************************************)
(* Integer widths and little-endian byte order.                            *)
(***************************************************************************)
U8Max == 255
U16Max == 65535
U16Mod == U16Max + 1

\* A u32 is kept as its two 16-bit halves (the checker's integers stop short
\* of 2^32): U32(n) is the u32 of a small natural number n.
U32(n) == [hi |-> (n \div U16Mod) % U16Mod, lo |-> n % U16Mod]
U32Max == [hi |-> U16Max, lo |-> U16Max]
\* `id as usize` as an index below `len`, the length of a table of fewer
\* than 2^16 entries
U32Below(u, len) == u.hi = 0 /\ u.lo < len
U32AsIndex(u) == u.lo

U16ToLeBytes(n) == << n % 256, (n \div 256) % 256 >>
U16FromLeBytes(b) == b[1] + 256 * b[2]
U32ToLeBytes(u) == U16ToLeBytes(u.lo) \o U16ToLeBytes(u.hi)
\* u32::from_be_bytes in the place of u32::from_le_bytes
U32FromBeBytes(b) ==
    [hi |-> b[2] + 256 * b[1], lo |-> b[4] + 256 * b[3]]

U32FromLeBytes(b) ==
    [hi |-> U16FromLeBytes(SubSeq(b, 3, 4)), lo |-> U16FromLeBytes(SubSeq(b, 1, 2))]

Zeros(n) == [i \in 1..n |-> 0]
StripZeros(bytes) == SelectSeq(bytes, LAMBDA c : c # 0)
\* String::from_utf8 on the byte values the model uses: ASCII is valid, a
\* byte of 0x80 and above never starts a text of the model and is rejected.
FromUtf8Ok(bytes) == \A i \in DOMAIN bytes : bytes[i] < 128

\* slice::chunks_exact: the full chunks, a trailing remainder is dropped
ChunksExact(buffer, size) ==
    [k \in 1..(Len(buffer) \div size) |->
        SubSeq(buffer, (k - 1) * size + 1, k * size)]

RECURSIVE Flatten(_)
Flatten(seqs) ==
    IF seqs = <<>> THEN <<>> ELSE Head(seqs) \o Flatten(Tail(seqs))

(***************************************************************************)
(* time.rs: Date and Time                                                  *)
(***************************************************************************)
DATE_SIZE == 4
TIME_SIZE == 2

MkDate(y, m, d) == [year |-> y, month |-> m, day |-> d]
MkTime(h, m) == [hours |-> h, minutes |-> m]

DateToLeBytes(date) ==
    U16ToLeBytes(date.year) \o << date.month, date.day >>
\* a decoder that reads the day before the month
DateTryFromDayFirst(buffer) ==
    MkDate(U16FromLeBytes(SubSeq(buffer, 1, 2)), buffer[4], buffer[3])

DateTryFrom(buffer) ==
    MkDate(U16FromLeBytes(SubSeq(buffer, 1, 2)), buffer[3], buffer[4])

TimeNone == MkTime(U8Max, U8Max)
TimeToLeBytes(time) == << time.hours, time.minutes >>
TimeTryFrom(buffer) == MkTime(buffer[1], buffer[2])

\* #[derive(Ord)]: fields compared in declaration order; -1, 0, 1
IntCmp(a, b) == IF a < b THEN -1 ELSE IF a > b THEN 1 ELSE 0
TimeCmp(a, b) ==
    IF IntCmp(a.hours, b.hours) # 0 THEN IntCmp(a.hours, b.hours)
    ELSE IntCmp(a.minutes, b.minutes)
DateCmp(a, b) ==
    IF IntCmp(a.year, b.year) # 0 THEN IntCmp(a.year, b.year)
    ELSE IF IntCmp(a.month, b.month) # 0 THEN IntCmp(a.month, b.month)
    ELSE IntCmp(a.day, b.day)

\* the local days the clock goes through, in calendar order
Days == << MkDate(2025, 12, 31), MkDate(2026, 1, 1), MkDate(2026, 1, 2) >>
DateToday == Days[clock]

(***************************************************************************)
(* tag.rs: Tag and Tags                                                    *)
(***************************************************************************)
TAG_ID_SIZE == 4
TAG_TEXT_SIZE == 24
TAG_SIZE == TAG_ID_SIZE + TAG_TEXT_SIZE

MkTag(id, text) == [id |-> id, tag |-> text]
TagNone == MkTag(U32Max, <<>>)

\* TryFrom<&[u8]> for Tag, after the length check
TagDecoded(id_bytes, text) ==
    IF ~FromUtf8Ok(text) THEN [err |-> "from_utf8", tag |-> TagNone]
    ELSE [err |-> "ok", tag |-> MkTag(U32FromLeBytes(id_bytes), text)]

TagTryFrom(buffer) ==
    IF Len(buffer) # TAG_SIZE THEN [err |-> "wrong_byte_len", tag |-> TagNone]
    ELSE TagDecoded(SubSeq(buffer, 1, TAG_ID_SIZE),
                    StripZeros(SubSeq(buffer, TAG_ID_SIZE + 1, TAG_SIZE)))

TagToBytes(tag) ==
    U32ToLeBytes(tag.id) \o tag.tag \o Zeros(TAG_SIZE - TAG_ID_SIZE - Len(tag.tag))

\* collect::<Result<Vec<_>, GlobalError>>: the first error, or every value
FirstErr(decoded) ==
    decoded[CHOOSE k \in DOMAIN decoded :
                /\ decoded[k].err # "ok"
                /\ \A j \in 1..(k - 1) : decoded[j].err = "ok"].err
AllOk(decoded) == \A k \in DOMAIN decoded : decoded[k].err = "ok"

TagsCollected(decoded, io_ok) ==
    IF ~io_ok THEN [err |-> "fs", tags |-> <<>>]
    ELSE IF ~AllOk(decoded) THEN [err |-> FirstErr(decoded), tags |-> <<>>]
    ELSE [err |-> "ok", tags |-> [k \in DOMAIN decoded |-> decoded[k].tag]]

TagsDecoded(chunks) == [k \in DOMAIN chunks |-> TagTryFrom(chunks[k])]

\* Tags::load; io_ok is whether the file could be read
TagsLoad(buffer, io_ok) ==
    TagsCollected(TagsDecoded(ChunksExact(buffer, TAG_SIZE)), io_ok)

\* a find that never matches
TagsFindNothing(ts, tag_name) == 0

\* the position of the first tag with that text, 0 when there is none
TagsFind(ts, tag_name) ==
    IF \E i \in DOMAIN ts : ts[i].tag = tag_name
    THEN CHOOSE i \in DOMAIN ts :
            /\ ts[i].tag = tag_name
            /\ \A j \in 1..(i - 1) : ts[j].tag # tag_name
    ELSE 0

\* Tags::get_or_insert numbering a new tag from one
TagsInsertedOneBased(ts, tag_name, at) ==
    IF at # 0 THEN [tags |-> ts, tag |-> ts[at]]
    ELSE [tags |-> Append(ts, MkTag(U32(Len(ts) + 1), tag_name)),
          tag |-> MkTag(U32(Len(ts) + 1), tag_name)]

\* Tags::get_or_insert returning a new tag that it does not push
TagsInsertedNotPushed(ts, tag_name, at) ==
    IF at # 0 THEN [tags |-> ts, tag |-> ts[at]]
    ELSE [tags |-> ts, tag |-> MkTag(U32(Len(ts)), tag_name)]

TagsInserted(ts, tag_name, at) ==
    IF at # 0 THEN [tags |-> ts, tag |-> ts[at]]
    ELSE [tags |-> Append(ts, MkTag(U32(Len(ts)), tag_name)),
          tag |-> MkTag(U32(Len(ts)), tag_name)]

TagsGetOrInsert(ts, tag_name) == TagsInserted(ts, tag_name, TagsFind(ts, tag_name))

\* Tags::get falling back on the first tag when the id is out of bounds
TagsGetOrFirst(ts, id) ==
    IF U32Below(id, Len(ts)) THEN Some(ts[U32AsIndex(id) + 1])
    ELSE IF Len(ts) > 0 THEN Some(ts[1]) ELSE None

TagsGet(ts, id) ==
    IF U32Below(id, Len(ts)) THEN Some(ts[U32AsIndex(id) + 1]) ELSE None

TagsSave(ts) == Flatten([i \in DOMAIN ts |-> TagToBytes(ts[i])])

(***************************************************************************)
(* pnch.rs: Pnch                                                           *)
(***************************************************************************)
DESCRIPTION_SIZE == 80
PNCH_SIZE == DATE_SIZE + TAG_ID_SIZE + TIME_SIZE + TIME_SIZE + DESCRIPTION_SIZE

MkPnch(id, date, in, out, tag, description) ==
    [id |-> id, date |-> date, _in |-> in, out |-> out, tag |-> tag,
     description |-> description]

PnchNew(id, time, tag, description) ==
    MkPnch(id, DateToday, time, None, tag, description)

\* Pnch::out with the time compared only when no description is given
PnchOutTimeUnlessDescribed(pnch, time, tag, description) ==
    IF IsSome(pnch.out) THEN [err |-> "pnch_already_closed", pnch |-> pnch]
    ELSE IF IsSome(description) /\ IsSome(pnch.description)
        THEN [err |-> "desc_already_specified", pnch |-> pnch]
    ELSE IF IsSome(description)
        THEN [err |-> "ok",
              pnch |-> [pnch EXCEPT !.description = description, !.tag = tag,
                                    !.out = Some(time)]]
    ELSE IF TimeCmp(time, pnch._in) < 0
        THEN [err |-> "pnch_out_before_in", pnch |-> pnch]
    ELSE IF IsNone(pnch.description)
        THEN [err |-> "desc_not_specified", pnch |-> pnch]
    ELSE [err |-> "ok", pnch |-> [pnch EXCEPT !.out = Some(time)]]

\* Pnch::out with the time comparison the wrong way round
PnchOutCmpReversed(pnch, time, tag, description) ==
    IF IsSome(pnch.out) THEN [err |-> "pnch_already_closed", pnch |-> pnch]
    ELSE IF TimeCmp(time, pnch._in) > 0
        THEN [err |-> "pnch_out_before_in", pnch |-> pnch]
    ELSE IF IsSome(description) /\ IsSome(pnch.description)
        THEN [err |-> "desc_already_specified", pnch |-> pnch]
    ELSE IF IsSome(description)
        THEN [err |-> "ok",
              pnch |-> [pnch EXCEPT !.description = description, !.tag = tag,
                                    !.out = Some(time)]]
    ELSE IF IsNone(pnch.description)
        THEN [err |-> "desc_not_specified", pnch |-> pnch]
    ELSE [err |-> "ok", pnch |-> [pnch EXCEPT !.out = Some(time)]]

\* Pnch::out without the final check that a description is there
PnchOutUndescribed(pnch, time, tag, description) ==
    IF IsSome(pnch.out) THEN [err |-> "pnch_already_closed", pnch |-> pnch]
    ELSE IF TimeCmp(time, pnch._in) < 0
        THEN [err |-> "pnch_out_before_in", pnch |-> pnch]
    ELSE IF IsSome(description) /\ IsSome(pnch.description)
        THEN [err |-> "desc_already_specified", pnch |-> pnch]
    ELSE IF IsSome(description)
        THEN [err |-> "ok",
              pnch |-> [pnch EXCEPT !.description = description, !.tag = tag,
                                    !.out = Some(time)]]
    ELSE [err |-> "ok", pnch |-> [pnch EXCEPT !.out = Some(time)]]

\* Pnch::out replacing a description that is already there
PnchOutOverwrites(pnch, time, tag, description) ==
    IF IsSome(pnch.out) THEN [err |-> "pnch_already_closed", pnch |-> pnch]
    ELSE IF TimeCmp(time, pnch._in) < 0
        THEN [err |-> "pnch_out_before_in", pnch |-> pnch]
    ELSE IF IsSome(description)
        THEN [err |-> "ok",
              pnch |-> [pnch EXCEPT !.description = description, !.tag = tag,
                                    !.out = Some(time)]]
    ELSE IF IsNone(pnch.description)
        THEN [err |-> "desc_not_specified", pnch |-> pnch]
    ELSE [err |-> "ok", pnch |-> [pnch EXCEPT !.out = Some(time)]]

\* Pnch::out: the error returned and the punch as the call leaves it
\* Pnch::out assigning the tag before it looks for a description conflict
PnchOutTagsFirst(pnch, time, tag, description) ==
    IF IsSome(pnch.out) THEN [err |-> "pnch_already_closed", pnch |-> pnch]
    ELSE IF TimeCmp(time, pnch._in) < 0
        THEN [err |-> "pnch_out_before_in", pnch |-> pnch]
    ELSE IF IsSome(description) /\ IsSome(pnch.description)
        THEN [err |-> "desc_already_specified", pnch |-> [pnch EXCEPT !.tag = tag]]
    ELSE IF IsSome(description)
        THEN [err |-> "ok",
              pnch |-> [pnch EXCEPT !.description = description, !.tag = tag,
                                    !.out = Some(time)]]
    ELSE IF IsNone(pnch.description)
        THEN [err |-> "desc_not_specified", pnch |-> pnch]
    ELSE [err |-> "ok", pnch |-> [pnch EXCEPT !.out = Some(time)]]

\* Pnch::out comparing the times before it looks whether the punch is closed
PnchOutTimeFirst(pnch, time, tag, description) ==
    IF TimeCmp(time, pnch._in) < 0
        THEN [err |-> "pnch_out_before_in", pnch |-> pnch]
    ELSE IF IsSome(pnch.out) THEN [err |-> "pnch_already_closed", pnch |-> pnch]
    ELSE IF IsSome(description) /\ IsSome(pnch.description)
        THEN [err |-> "desc_already_specified", pnch |-> pnch]
    ELSE IF IsSome(description)
        THEN [err |-> "ok",
              pnch |-> [pnch EXCEPT !.description = description, !.tag = tag,
                                    !.out = Some(time)]]
    ELSE IF IsNone(pnch.description)
        THEN [err |-> "desc_not_specified", pnch |-> pnch]
    ELSE [err |-> "ok", pnch |-> [pnch EXCEPT !.out = Some(time)]]

PnchOut(pnch, time, tag, description) ==
    IF IsSome(pnch.out) THEN [err |-> "pnch_already_closed", pnch |-> pnch]
    ELSE IF TimeCmp(time, pnch._in) < 0
        THEN [err |-> "pnch_out_before_in", pnch |-> pnch]
    ELSE IF IsSome(description) /\ IsSome(pnch.description)
        THEN [err |-> "desc_already_specified", pnch |-> pnch]
    ELSE IF IsSome(description)
        THEN [err |-> "ok",
              pnch |-> [pnch EXCEPT !.description = description, !.tag = tag,
                                    !.out = Some(time)]]
    ELSE IF IsNone(pnch.description)
        THEN [err |-> "desc_not_specified", pnch |-> pnch]
    ELSE [err |-> "ok", pnch |-> [pnch EXCEPT !.out = Some(time)]]

\* the fields of Pnch::try_from, each from its bytes
\* the tag id that Pnch::try_from reads as "no tag"
PNCH_NO_TAG_ID == 65535
TagOfId(tag_id, ts) ==
    IF tag_id = U32(PNCH_NO_TAG_ID) THEN None ELSE TagsGet(ts, tag_id)
OutOfBytes(out_bytes) ==
    IF out_bytes = << U8Max, U8Max >> THEN None ELSE Some(TimeTryFrom(out_bytes))
DescriptionOfBytes(description_bytes) ==
    IF Len(description_bytes) = 0 THEN None ELSE Some(description_bytes)

PnchDecoded(id, date_bytes, in_bytes, out_bytes, tag_id_bytes, description_bytes, ts) ==
    IF ~FromUtf8Ok(description_bytes)
    THEN [err |-> "from_utf8",
          pnch |-> MkPnch(id, MkDate(0, 0, 0), MkTime(0, 0), None, None, None)]
    ELSE [err |-> "ok",
          pnch |-> MkPnch(id, DateTryFrom(date_bytes), TimeTryFrom(in_bytes),
                          OutOfBytes(out_bytes),
                          TagOfId(U32FromLeBytes(tag_id_bytes), ts),
                          DescriptionOfBytes(description_bytes))]

\* Pnch::try_from: decode one chunk of PNCH_SIZE bytes
PnchTryFrom(id, chunk, ts) ==
    IF Len(chunk) # PNCH_SIZE
    THEN [err |-> "wrong_byte_len",
          pnch |-> MkPnch(id, MkDate(0, 0, 0), MkTime(0, 0), None, None, None)]
    ELSE PnchDecoded(id,
            SubSeq(chunk, 1, DATE_SIZE),
            SubSeq(chunk, DATE_SIZE + 1, DATE_SIZE + TIME_SIZE),
            SubSeq(chunk, DATE_SIZE + TIME_SIZE + 1, DATE_SIZE + 2 * TIME_SIZE),
            SubSeq(chunk, DATE_SIZE + 2 * TIME_SIZE + 1,
                   DATE_SIZE + 2 * TIME_SIZE + TAG_ID_SIZE),
            StripZeros(SubSeq(chunk, DATE_SIZE + 2 * TIME_SIZE + TAG_ID_SIZE + 1,
                              PNCH_SIZE)),
            ts)

\* From<&Pnch> for Vec<u8>
PnchHead(pnch) ==
    DateToLeBytes(pnch.date) \o TimeToLeBytes(pnch._in)
        \o TimeToLeBytes(IF IsSome(pnch.out) THEN Unwrap(pnch.out) ELSE TimeNone)
        \o U32ToLeBytes(IF IsSome(pnch.tag) THEN Unwrap(pnch.tag).id ELSE TagNone.id)
        \o (IF IsSome(pnch.description) THEN Unwrap(pnch.description) ELSE <<>>)
Padded(head, size) == head \o Zeros(size - Len(head))
PnchToBytes(pnch) == Padded(PnchHead(pnch), PNCH_SIZE)

\* Ord for Pnch with the date left out of the key
PnchCmpTimeOnly(a, b) == TimeCmp(a._in, b._in)

\* Ord for Pnch: (date, _in) compared as a tuple
PnchCmp(a, b) ==
    IF DateCmp(a.date, b.date) # 0 THEN DateCmp(a.date, b.date)
    ELSE TimeCmp(a._in, b._in)

\* Description::from_str: split at the first '/'
Slash == 47
SplitOnce(str) ==
    IF \E i \in DOMAIN str : str[i] = Slash
    THEN CHOOSE i \in DOMAIN str :
            /\ str[i] = Slash
            /\ \A j \in 1..(i - 1) : str[j] # Slash
    ELSE 0
DescriptionSplit(str, at) ==
    IF at # 0
    THEN [tag |-> Some(SubSeq(str, 1, at - 1)),
          description |-> SubSeq(str, at + 1, Len(str))]
    ELSE [tag |-> None, description |-> str]
DescriptionFromStr(str) == DescriptionSplit(str, SplitOnce(str))

(***************************************************************************)
(* pnch.rs: Pnchs                                                          *)
(***************************************************************************)
\* slice::sort: the stable sort of the sequence by PnchCmp
InsertAt(sorted, pnch, k) ==
    SubSeq(sorted, 1, k) \o << pnch >> \o SubSeq(sorted, k + 1, Len(sorted))
InsertSorted(sorted, pnch) ==
    InsertAt(sorted, pnch,
             Cardinality({i \in DOMAIN sorted : PnchCmp(sorted[i], pnch) <= 0}))

RECURSIVE SortPnchs(_)
SortPnchs(ps) ==
    IF Len(ps) <= 1 THEN ps
    ELSE InsertSorted(SortPnchs(SubSeq(ps, 1, Len(ps) - 1)), ps[Len(ps)])

\* a decoding that numbers the records from 1
PnchsDecodedFromOne(chunks, ts) ==
    [k \in DOMAIN chunks |-> PnchTryFrom(k, chunks[k], ts)]

PnchsDecoded(chunks, ts) ==
    [k \in DOMAIN chunks |-> PnchTryFrom(k - 1, chunks[k], ts)]

PnchsCollected(decoded, io_ok) ==
    IF ~io_ok THEN [err |-> "fs", pnchs |-> <<>>]
    ELSE IF ~AllOk(decoded) THEN [err |-> FirstErr(decoded), pnchs |-> <<>>]
    ELSE [err |-> "ok",
          pnchs |-> SortPnchs([k \in DOMAIN decoded |-> decoded[k].pnch])]

\* Pnchs::load; io_ok is whether the file could be opened and read
PnchsLoad(buffer, ts, io_ok) ==
    PnchsCollected(PnchsDecoded(ChunksExact(buffer, PNCH_SIZE), ts), io_ok)

\* Pnchs::_in looking at the first punch of the store instead of the last
PnchsInChecksFirst(ps, pnch) ==
    IF Len(ps) > 0 /\ IsNone(ps[1].out)
    THEN [err |-> "pnch_already_open", pnchs |-> ps]
    ELSE [err |-> "ok", pnchs |-> Append(ps, pnch)]

\* Pnchs::_in
PnchsIn(ps, pnch) ==
    IF Len(ps) > 0 /\ IsNone(ps[Len(ps)].out)
    THEN [err |-> "pnch_already_open", pnchs |-> ps]
    ELSE [err |-> "ok", pnchs |-> Append(ps, pnch)]

\* Pnchs::get: the position of the first punch with that id, 0 when absent
PnchsGet(ps, id) ==
    IF \E i \in DOMAIN ps : ps[i].id = id
    THEN CHOOSE i \in DOMAIN ps :
            /\ ps[i].id = id
            /\ \A j \in 1..(i - 1) : ps[j].id # id
    ELSE 0

\* Pnchs::get_last: the position of the last punch, 0 when the store is empty
PnchsGetLast(ps) == Len(ps)

PnchsSave(ps) == Flatten([i \in DOMAIN ps |-> PnchToBytes(ps[i])])

(***************************************************************************)
(* time.rs: Period, and the calendar that Date subtraction walks           *)
(***************************************************************************)
MkPeriod(unit, n) == [unit |-> unit, n |-> n]
DateMin == MkDate(0, 0, 0)
DateMax == MkDate(U16Max, 12, 31)

IsLeapYear(y) == (y % 4 = 0 /\ y % 100 # 0) \/ y % 400 = 0
DaysInMonth(y, m) ==
    IF m = 2 THEN (IF IsLeapYear(y) THEN 29 ELSE 28)
    ELSE IF m \in {4, 6, 9, 11} THEN 30 ELSE 31
PreviousDay(d) ==
    IF d.day > 1 THEN MkDate(d.year, d.month, d.day - 1)
    ELSE IF d.month > 1 THEN MkDate(d.year, d.month - 1, DaysInMonth(d.year, d.month - 1))
    ELSE MkDate(d.year - 1, 12, 31)

\* date.checked_sub(Duration::days(n))
RECURSIVE DateMinusDays(_, _)
DateMinusDays(d, n) == IF n = 0 THEN d ELSE DateMinusDays(PreviousDay(d), n - 1)

\* the days of a period, in whole-day units
PeriodDays(p) ==
    IF p.unit = "days" THEN p.n
    ELSE IF p.unit = "weeks" THEN p.n * 7
    ELSE IF p.unit = "months" THEN p.n * 30
    ELSE p.n * 365

\* Period::to_date_since_today
ToDateSinceToday(p) == DateMinusDays(DateToday, PeriodDays(p))

(***************************************************************************)
(* config.rs: Config                                                       *)
(***************************************************************************)
CONFIG_SIZE == 5

\* a u32 as a number, for the values below 2^31 the model computes with
U32Value(u) == u.hi * U16Mod + u.lo

MkConfig(print_color, ls_default_period) ==
    [print_color |-> print_color, ls_default_period |-> ls_default_period]
ConfigDefault == MkConfig(TRUE, MkPeriod("weeks", 2))

\* a Config::load that falls back to the defaults on any unexpected length
ConfigLoadedLenient(buffer, io_ok) ==
    IF ~io_ok THEN [err |-> "fs", config |-> ConfigDefault]
    ELSE IF Len(buffer) # CONFIG_SIZE THEN [err |-> "ok", config |-> ConfigDefault]
    ELSE [err |-> "ok",
          config |-> MkConfig(buffer[1] # 0,
                              MkPeriod("days", U32Value(U32FromLeBytes(SubSeq(buffer, 2, 5)))))]

\* Config::load with the Config it returns
ConfigLoaded(buffer, io_ok) ==
    IF ~io_ok THEN [err |-> "fs", config |-> ConfigDefault]
    ELSE IF Len(buffer) = 0 THEN [err |-> "ok", config |-> ConfigDefault]
    ELSE IF Len(buffer) # CONFIG_SIZE
        THEN [err |-> "wrong_byte_len", config |-> ConfigDefault]
    ELSE [err |-> "ok",
          config |-> MkConfig(buffer[1] # 0,
                              MkPeriod("days", U32Value(U32FromLeBytes(SubSeq(buffer, 2, 5)))))]

\* Config::load as `run` uses it: the error, if any
ConfigLoad(buffer, io_ok) == ConfigLoaded(buffer, io_ok).err


(***************************************************************************)
(* main.rs: run.  One invocation is one step: load the three stores, act   *)
(* on the command, save.  `io` names the file operation of the invocation  *)
(* that the file system refuses, if any; a refused write leaves the file   *)
(* as it was.  The texts given on the command line fit their fields.       *)
(***************************************************************************)
IoOutcomes == {"ok", "load_fails", "save_pnchs_fails", "save_tags_fails"}

\* the command-line texts and times the invocations are given
StrBug1FixedIt ==
    << 66, 85, 71, 45, 49, 47, 102, 105, 120, 101, 100, 32, 105, 116 >>
                                                                \* "BUG-1/fixed it"
StrBug1 == << 66, 85, 71, 45, 49 >>                             \* "BUG-1"
StrFixedIt == << 102, 105, 120, 101, 100, 32, 105, 116 >>       \* "fixed it"
DescriptionArgs == {None, Some(<<>>), Some(StrBug1FixedIt)}
InTimes == {MkTime(9, 0), MkTime(10, 0)}
OutTimes == {MkTime(8, 30), MkTime(10, 0), MkTime(255, 255)}
EditDescriptionArgs == {None, Some(StrBug1FixedIt)}
EditInArgs == {None, Some(MkTime(10, 0))}
EditOutArgs == {None, Some(MkTime(8, 30))}

\* the first three statements of run: Tags::load, Pnchs::load, Config::load
\* a start of run that does not look at the outcome of Config::load
StoresLoadedWithoutConfig(t, p, c) ==
    [err |-> IF t.err # "ok" THEN t.err ELSE p.err,
     tags |-> t.tags,
     pnchs |-> IF t.err # "ok" THEN <<>> ELSE p.pnchs]

StoresLoaded(t, p, c) ==
    [err |-> IF t.err # "ok" THEN t.err ELSE IF p.err # "ok" THEN p.err ELSE c,
     tags |-> t.tags,
     pnchs |-> IF t.err # "ok" THEN <<>> ELSE p.pnchs]
PnchsLoadWith(t) ==
    StoresLoaded(t, PnchsLoad(pnchsDb, t.tags, TRUE), ConfigLoad(configDb, TRUE))
LoadStores(io) == PnchsLoadWith(TagsLoad(tagsDb, io # "load_fails"))

\* description.map(|d| (d.tag.map(|t| tags.get_or_insert(t)), Some(d.description)))
\*     .unwrap_or_else(|| (None, None))
EntryInserted(inserted, d) ==
    [tags |-> inserted.tags, tag |-> Some(inserted.tag),
     description |-> Some(d.description)]
EntryParsed(ts, d) ==
    IF IsNone(d.tag)
    THEN [tags |-> ts, tag |-> None, description |-> Some(d.description)]
    ELSE EntryInserted(TagsGetOrInsert(ts, Unwrap(d.tag)), d)
EntryTag(ts, description) ==
    IF IsNone(description) THEN [tags |-> ts, tag |-> None, description |-> None]
    ELSE EntryParsed(ts, DescriptionFromStr(Unwrap(description)))

\* what an invocation leaves: its outcome, its stores and the files
Outcome(e, ld, ts, ps, tdb, pdb) ==
    [err |-> e, loaded |-> ld, tags |-> ts, pnchs |-> ps,
     tagsDb |-> tdb, pnchsDb |-> pdb]

\* the invocation ends before it has saved anything
Failed(e, ld, ts, ps) == Outcome(e, ld, ts, ps, tagsDb, pnchsDb)

\* pnchs.save()?; tags.save()?;
StoresSaved(ld, ts, ps, io, pdb) ==
    IF io = "save_pnchs_fails" THEN Outcome("fs", ld, ts, ps, tagsDb, pnchsDb)
    ELSE IF io = "save_tags_fails" THEN Outcome("fs", ld, ts, ps, tagsDb, pdb)
    ELSE Outcome("ok", ld, ts, ps, TagsSave(ts), pdb)
SaveStores(ld, ts, ps, io) == StoresSaved(ld, ts, ps, io, PnchsSave(ps))

\* Commands::In
InPunched(ld, entry, punched, io) ==
    IF punched.err # "ok" THEN Failed(punched.err, ld.pnchs, entry.tags, punched.pnchs)
    ELSE SaveStores(ld.pnchs, entry.tags, punched.pnchs, io)
InEntry(ld, entry, time, io) ==
    InPunched(ld, entry,
              PnchsIn(ld.pnchs,
                      PnchNew(Len(ld.pnchs), time, entry.tag, entry.description)),
              io)
InLoaded(ld, description, time, io) ==
    IF ld.err # "ok" THEN Failed(ld.err, ld.pnchs, ld.tags, ld.pnchs)
    ELSE InEntry(ld, EntryTag(ld.tags, description), time, io)
RunIn(description, time, io) == InLoaded(LoadStores(io), description, time, io)

\* Commands::Out
OutClosed(ld, entry, closed, at, io) ==
    IF closed.err # "ok"
    THEN Failed(closed.err, ld.pnchs, entry.tags, [ld.pnchs EXCEPT ![at] = closed.pnch])
    ELSE SaveStores(ld.pnchs, entry.tags, [ld.pnchs EXCEPT ![at] = closed.pnch], io)
OutEntry(ld, entry, time, at, io) ==
    OutClosed(ld, entry, PnchOut(ld.pnchs[at], time, entry.tag, entry.description),
              at, io)
OutLoaded(ld, description, time, io) ==
    IF ld.err # "ok" THEN Failed(ld.err, ld.pnchs, ld.tags, ld.pnchs)
    ELSE IF PnchsGetLast(ld.pnchs) = 0
        THEN Failed("pnch_not_open", ld.pnchs, ld.tags, ld.pnchs)
    ELSE OutEntry(ld, EntryTag(ld.tags, description), time, PnchsGetLast(ld.pnchs), io)
RunOut(description, time, io) == OutLoaded(LoadStores(io), description, time, io)

\* Commands::Edit
EditOut(pnch, out) == IF IsSome(out) THEN [pnch EXCEPT !.out = out] ELSE pnch
EditIn(pnch, in) == IF IsSome(in) THEN [pnch EXCEPT !._in = Unwrap(in)] ELSE pnch
EditDescription(pnch, description, entry) ==
    IF IsSome(description)
    THEN [pnch EXCEPT !.tag = entry.tag, !.description = entry.description]
    ELSE pnch
EditEntry(ld, entry, description, in, out, at, io) ==
    SaveStores(ld.pnchs, entry.tags,
               [ld.pnchs EXCEPT
                    ![at] = EditDescription(EditIn(EditOut(ld.pnchs[at], out), in),
                                            description, entry)],
               io)
EditAt(ld, description, in, out, at, io) ==
    IF at = 0 THEN Failed("pnch_not_open", ld.pnchs, ld.tags, ld.pnchs)
    ELSE EditEntry(ld, EntryTag(ld.tags, description), description, in, out, at, io)
EditLoaded(ld, description, id, in, out, io) ==
    IF ld.err # "ok" THEN Failed(ld.err, ld.pnchs, ld.tags, ld.pnchs)
    ELSE EditAt(ld, description, in, out,
                IF IsSome(id) THEN PnchsGet(ld.pnchs, Unwrap(id))
                ELSE PnchsGetLast(ld.pnchs),
                io)
RunEdit(description, id, in, out, io) ==
    EditLoaded(LoadStores(io), description, id, in, out, io)

NoCmd ==
    [name |-> "none", description |-> None, time |-> MkTime(0, 0),
     id |-> None, in |-> None, out |-> None, io |-> "ok"]

\* the invocation `c` returns with outcome `r`
Finish(c, r) ==
    /\ pc = "idle"
    /\ pc' = "ran"
    /\ cmd' = c
    /\ err' = r.err
    /\ loaded' = r.loaded
    /\ tags' = r.tags
    /\ pnchs' = r.pnchs
    /\ tagsDb' = r.tagsDb
    /\ pnchsDb' = r.pnchsDb
    /\ UNCHANGED <<configDb, clock>>

StoredPnchs == Len(pnchsDb) \div PNCH_SIZE

InWith(ios) ==
    /\ StoredPnchs < MaxPnchs
    /\ \E description \in DescriptionArgs, time \in InTimes, io \in ios :
        Finish([NoCmd EXCEPT !.name = "in", !.description = description,
                             !.time = time, !.io = io],
               RunIn(description, time, io))

OutWith(ios) ==
    \E description \in DescriptionArgs, time \in OutTimes, io \in ios :
        Finish([NoCmd EXCEPT !.name = "out", !.description = description,
                             !.time = time, !.io = io],
               RunOut(description, time, io))

EditWith(ios) ==
    \E description \in EditDescriptionArgs,
       id \in {None} \cup {Some(i) : i \in 0..(StoredPnchs - 1)},
       in \in EditInArgs, out \in EditOutArgs, io \in ios :
        Finish([NoCmd EXCEPT !.name = "edit", !.description = description,
                             !.id = id, !.in = in, !.out = out, !.io = io],
               RunEdit(description, id, in, out, io))

\* invocations on a file system that refuses nothing
In == InWith({"ok"})
Out == OutWith({"ok"})
Edit == EditWith({"ok"})

\* invocations on a file system that may refuse one operation
InIo == InWith(IoOutcomes)
OutIo == OutWith(IoOutcomes)
EditIo == EditWith(IoOutcomes)

\* the process exits: its stores are gone, the files stay
Exit ==
    /\ pc = "ran"
    /\ pc' = "idle"
    /\ cmd' = NoCmd
    /\ err' = "ok"
    /\ loaded' = <<>>
    /\ tags' = <<>>
    /\ pnchs' = <<>>
    /\ UNCHANGED <<tagsDb, pnchsDb, configDb, clock>>

NoProcess ==
    /\ pc = "idle"
    /\ cmd = NoCmd
    /\ err = "ok"
    /\ loaded = <<>>
    /\ tags = <<>>
    /\ pnchs = <<>>

\* first use: storage::load finds no files and creates them empty
Init ==
    /\ tagsDb = <<>>
    /\ pnchsDb = <<>>
    /\ configDb = <<>>
    /\ clock = 1
    /\ NoProcess

Next == In \/ Out \/ Edit \/ Exit
Spec == Init /\ [][Next]_vars

NextIo == InIo \/ OutIo \/ EditIo \/ Exit
SpecIo == Init /\ [][NextIo]_vars

NextNoEdit == In \/ Out \/ Exit
SpecNoEdit == Init /\ [][NextNoEdit]_vars

(***************************************************************************)
(* Pnchs::load applied to stored records in any order: the first run of    *)
(* the program on a punch file of up to MaxLoadRecords records, written on *)
(* different days and in any order.                                        *)
(***************************************************************************)
MaxLoadRecords == 3

LoadRecords ==
    { MkPnch(0, date, in, state[1], None, state[2]) :
        date \in {Days[1], Days[2]},
        in \in {MkTime(8, 30), MkTime(9, 0)},
        state \in { << None, None >>, << Some(MkTime(10, 0)), Some(StrFixedIt) >> } }

RECURSIVE SeqsUpTo(_, _)
SeqsUpTo(S, n) ==
    IF n = 0 THEN { <<>> }
    ELSE SeqsUpTo(S, n - 1)
            \cup { Append(q, x) : q \in { r \in SeqsUpTo(S, n - 1) : Len(r) = n - 1 },
                                  x \in S }

InitLoad ==
    /\ tagsDb = <<>>
    /\ pnchsDb \in { PnchsSave(ps) : ps \in SeqsUpTo(LoadRecords, MaxLoadRecords) }
    /\ configDb = <<>>
    /\ clock = 1
    /\ NoProcess

NextLoad == Out \/ Exit
SpecLoad == InitLoad /\ [][NextLoad]_vars

(***************************************************************************)
(* Properties                                                              *)
(***************************************************************************)
\* `run` has returned and its three loads had succeeded
Ran == pc = "ran"
LoadOk == Ran /\ cmd.io # "load_fails" /\ err \notin {"wrong_byte_len", "from_utf8"}

OpenCount(ps) == Cardinality({i \in DOMAIN ps : IsNone(ps[i].out)})
TimeLe(a, b) == TimeCmp(a, b) <= 0
TimeLt(a, b) == TimeCmp(a, b) < 0

\* C1: the punch store never holds more than one Open punch (out absent),
\* neither as loaded nor as the command leaves it.
C1_AtMostOneOpen == OpenCount(loaded) <= 1 /\ OpenCount(pnchs) <= 1

\* C2: punch_in on a store whose last element is Open fails "already open"
\* and leaves the store as loaded; on an empty store or one whose last
\* element is Closed it succeeds and appends the new punch as last element,
\* the earlier elements unchanged.
C2_PunchIn ==
    (LoadOk /\ cmd.name = "in") =>
        IF Len(loaded) > 0 /\ IsNone(loaded[Len(loaded)].out)
        THEN err = "pnch_already_open" /\ pnchs = loaded
        ELSE /\ err = "ok"
             /\ Len(pnchs) = Len(loaded) + 1
             /\ SubSeq(pnchs, 1, Len(loaded)) = loaded
             /\ pnchs[Len(pnchs)]._in = cmd.time
             /\ pnchs[Len(pnchs)].id = Len(loaded)
             /\ IsNone(pnchs[Len(pnchs)].out)

C2_Witness ==
    /\ LoadOk /\ cmd.name = "in" /\ err = "ok"
    /\ Len(loaded) = 2
    /\ IsSome(loaded[2].out)
    /\ Len(pnchs) = 3

\* C3: a punch that is Closed when a command has saved the store is Closed
\* in the record every later load reads for it (its slot in the file).
C3_ClosedStaysClosed ==
    (Ran /\ err = "ok") =>
        \A i \in DOMAIN pnchs :
            IsSome(pnchs[i].out) =>
                IsSome(PnchTryFrom(i - 1, ChunksExact(pnchsDb, PNCH_SIZE)[i],
                                   tags).pnch.out)

\* C4: punch_out with a time before `in` fails, whatever the tag and the
\* description arguments and whatever the state of the punch, and leaves
\* `out` as it was.
C4_OutBeforeInFails ==
    (LoadOk /\ cmd.name = "out" /\ Len(loaded) > 0
        /\ TimeLt(cmd.time, loaded[Len(loaded)]._in)) =>
            /\ err \in {"pnch_out_before_in", "pnch_already_closed"}
            /\ pnchs[Len(pnchs)].out = loaded[Len(loaded)].out

C4_Witness ==
    /\ LoadOk /\ cmd.name = "out"
    /\ cmd.description = Some(StrBug1FixedIt)
    /\ Len(loaded) > 0
    /\ IsNone(loaded[Len(loaded)].description)
    /\ TimeLt(cmd.time, loaded[Len(loaded)]._in)
    /\ err = "pnch_out_before_in"

\* an Out command with no description on an Open punch that has none
OutUndescribed ==
    /\ LoadOk /\ cmd.name = "out" /\ Len(loaded) > 0
    /\ IsNone(loaded[Len(loaded)].out)
    /\ IsNone(loaded[Len(loaded)].description)
    /\ IsNone(cmd.description)

\* C5 as stated: closing a punch that has no description, with no
\* description given, fails with "description not specified" and the punch
\* stays Open.
C5_FailsNotSpecified ==
    OutUndescribed =>
        err = "desc_not_specified" /\ IsNone(pnchs[Len(pnchs)].out)

\* C5: closing a punch that has no description, with no description given,
\* fails and the punch stays Open: with "out before in" when the time is
\* before `in`, with "description not specified" otherwise.
C5_FailsAndStaysOpen ==
    OutUndescribed =>
        /\ err = IF TimeLt(cmd.time, loaded[Len(loaded)]._in)
                 THEN "pnch_out_before_in" ELSE "desc_not_specified"
        /\ IsNone(pnchs[Len(pnchs)].out)
        /\ pnchs = loaded

C5_Witness ==
    OutUndescribed /\ err = "desc_not_specified" /\ cmd.time = MkTime(10, 0)

OutNotBeforeIn(ps) ==
    \A i \in DOMAIN ps : IsSome(ps[i].out) => TimeLe(ps[i]._in, Unwrap(ps[i].out))

\* C6 as stated: every punch whose out is set has out >= in, in the store
\* as loaded and as the command leaves it.
C6_OutNotBeforeIn == OutNotBeforeIn(loaded) /\ OutNotBeforeIn(pnchs)

\* C6: every punch that an In or Out command leaves Closed, and that was
\* not already Closed with out < in when loaded, has out >= in; only Edit
\* stores an out before in.
C6_OutNotBeforeInUnlessEdited ==
    (LoadOk /\ cmd.name \in {"in", "out"}) =>
        \A i \in DOMAIN pnchs :
            (/\ IsSome(pnchs[i].out)
             /\ TimeLt(Unwrap(pnchs[i].out), pnchs[i]._in)) =>
                /\ i \in DOMAIN loaded
                /\ loaded[i] = pnchs[i]

C6_Witness ==
    /\ LoadOk /\ cmd.name = "out" /\ err = "ok"
    /\ IsNone(loaded[Len(loaded)].out)
    /\ pnchs[Len(pnchs)].out = Some(MkTime(10, 0))
    /\ pnchs[Len(pnchs)]._in = MkTime(9, 0)

Described(ps) ==
    \A i \in DOMAIN ps :
        IsSome(ps[i].out) =>
            IsSome(ps[i].description) /\ Unwrap(ps[i].description) # <<>>

\* C7: every punch whose out is set has a description that is present and
\* not empty, in the store as loaded and as the command leaves it.
C7_ClosedIsDescribed == Described(loaded) /\ Described(pnchs)

\* C8: an Open punch of the loaded store is its last element, the greatest
\* by (date, in), the one get_last returns.
C8_OpenIsLast ==
    LoadOk =>
        \A i \in DOMAIN loaded :
            IsNone(loaded[i].out) =>
                /\ i = PnchsGetLast(loaded)
                /\ \A j \in DOMAIN loaded : PnchCmp(loaded[j], loaded[i]) <= 0

\* C9: an invocation that fails leaves the tag, punch and config files as
\* they were before it.
C9_NoPartialCommit ==
    [][(pc' = "ran" /\ err' # "ok") =>
            /\ tagsDb' = tagsDb
            /\ pnchsDb' = pnchsDb
            /\ configDb' = configDb]_vars

\* the records of the punch file, decoded in file order
FileRecords(buffer, ts) ==
    [k \in 1..(Len(buffer) \div PNCH_SIZE) |->
        PnchTryFrom(k - 1, ChunksExact(buffer, PNCH_SIZE)[k], ts).pnch]

IsSortedPnchs(ps) ==
    \A i \in 1..(Len(ps) - 1) :
        \/ DateCmp(ps[i].date, ps[i + 1].date) < 0
        \/ /\ ps[i].date = ps[i + 1].date
           /\ TimeLe(ps[i]._in, ps[i + 1]._in)

IsPermutationOf(ps, qs) ==
    /\ Len(ps) = Len(qs)
    /\ \A k \in DOMAIN qs :
        Cardinality({i \in DOMAIN ps : ps[i] = qs[k]})
            = Cardinality({j \in DOMAIN qs : qs[j] = qs[k]})

\* C10: the store Pnchs::load returns is sorted ascending by (date, in) and
\* is a permutation of the records of the file it read.
C10_LoadSorts ==
    [][(pc' = "ran" /\ LoadOk') =>
            /\ IsSortedPnchs(loaded')
            /\ IsPermutationOf(loaded',
                               FileRecords(pnchsDb, TagsLoad(tagsDb, TRUE).tags))]_vars

\* the load moved a record of a three-record file away from its slot
C10_Witness ==
    /\ LoadOk
    /\ Len(loaded) = 3
    /\ loaded[1].id = 2
    /\ loaded[3].id = 0
    /\ loaded[1].date # loaded[3].date

\* the punch and the tag of the example: punched in at 09:00 with nothing
\* else, then closed at 10:00 with "BUG-1/fixed it"
ExampleOpen == MkPnch(0, Days[1], MkTime(9, 0), None, None, None)
ExampleTag == MkTag(U32(0), StrBug1)
ExampleClosed ==
    MkPnch(0, Days[1], MkTime(9, 0), Some(MkTime(10, 0)), Some(ExampleTag),
           Some(StrFixedIt))
ExampleOpenStored == pnchsDb = PnchsSave(<< ExampleOpen >>) /\ tagsDb = <<>>

\* C11: from empty stores, In at 09:00 with no description stores exactly
\* one Open punch; on that store Out at 08:30 fails with out-before-in and
\* leaves both files as they were; Out at 10:00 with "BUG-1/fixed it" then
\* succeeds and stores the punch Closed with out 10:00, description
\* "fixed it" and the tag "BUG-1", created with id 0 in the tag table.
C11_ExampleTrace ==
    [][/\ (/\ pnchsDb = <<>> /\ tagsDb = <<>>
           /\ pc' = "ran" /\ cmd'.name = "in"
           /\ cmd'.time = MkTime(9, 0) /\ cmd'.description = None) =>
                /\ err' = "ok"
                /\ pnchs' = << ExampleOpen >>
                /\ FileRecords(pnchsDb', <<>>) = << ExampleOpen >>
                /\ tagsDb' = <<>>
       /\ (/\ ExampleOpenStored
           /\ pc' = "ran" /\ cmd'.name = "out"
           /\ cmd'.time = MkTime(8, 30)) =>
                /\ err' = "pnch_out_before_in"
                /\ pnchs' = << ExampleOpen >>
                /\ pnchsDb' = pnchsDb
                /\ tagsDb' = tagsDb
       /\ (/\ ExampleOpenStored
           /\ pc' = "ran" /\ cmd'.name = "out"
           /\ cmd'.time = MkTime(10, 0)
           /\ cmd'.description = Some(StrBug1FixedIt)) =>
                /\ err' = "ok"
                /\ pnchs' = << ExampleClosed >>
                /\ tags' = << ExampleTag >>
                /\ TagsLoad(tagsDb', TRUE) = [err |-> "ok", tags |-> << ExampleTag >>]
                /\ FileRecords(pnchsDb', << ExampleTag >>) = << ExampleClosed >>
      ]_vars

C11_Witness ==
    /\ Ran /\ cmd.name = "out" /\ err = "ok"
    /\ cmd.time = MkTime(10, 0)
    /\ cmd.description = Some(StrBug1FixedIt)
    /\ loaded = << ExampleOpen >>
    /\ tags = << ExampleTag >>
    /\ pnchs = << ExampleClosed >>

(***************************************************************************)
(* Tags as an object: get_or_insert, and save followed by load, called in  *)
(* any order on a table.  SpecTags starts from any table a tag file of up  *)
(* to MaxInitTags records gives, SpecTagsEmpty from the empty table.  cmd  *)
(* holds the call just made, what it returned and the call before it.      *)
(***************************************************************************)
MaxTags == 3
MaxInitTags == 2

StrA == << 65 >>                                                \* "A"
StrB == << 66 >>                                                \* "B"
TagTexts == {StrA, StrB, StrBug1}

NoCall == [name |-> "none", text |-> <<>>, tag |-> TagNone, len |-> 0]
Called(name, text, tag, len) ==
    [name |-> name, text |-> text, tag |-> tag, len |-> len,
     prev |-> [name |-> cmd.name, text |-> cmd.text, tag |-> cmd.tag,
               len |-> cmd.len]]

TagsReturned(text, r) ==
    /\ Len(r.tags) <= MaxTags
    /\ tags' = r.tags
    /\ err' = "ok"
    /\ cmd' = Called("get_or_insert", text, r.tag, Len(r.tags))
    /\ UNCHANGED tagsDb

\* tags.get_or_insert(text) for a text of `texts`
GetOrInsertOf(texts) ==
    /\ err = "ok"
    /\ \E text \in texts : TagsReturned(text, TagsGetOrInsert(tags, text))
    /\ UNCHANGED <<pnchsDb, configDb, clock, pc, loaded, pnchs>>

\* tags.get_or_insert(text) for a text the command line can give
GetOrInsert == GetOrInsertOf(TagTexts)

\* tags.get_or_insert(text) for any String, one with a zero byte included
StrANulB == << 65, 0, 66 >>                                     \* "A\0B"
GetOrInsertAny == GetOrInsertOf(TagTexts \cup {StrANulB})

TagsReloaded(ld) ==
    /\ tags' = ld.tags
    /\ err' = ld.err
    /\ cmd' = Called("save_load", <<>>, TagNone, Len(ld.tags))

\* tags.save() and then Tags::load() of what was written
SaveLoad ==
    /\ err = "ok"
    /\ tagsDb' = TagsSave(tags)
    /\ TagsReloaded(TagsLoad(TagsSave(tags), TRUE))
    /\ UNCHANGED <<pnchsDb, configDb, clock, pc, loaded, pnchs>>

InitTagRecords == { MkTag(U32(i), t) : i \in {0, 1}, t \in {StrA, StrB} }

InitTagsFrom(tables) ==
    /\ tags \in tables
    /\ tagsDb = TagsSave(tags)
    /\ pnchsDb = <<>>
    /\ configDb = <<>>
    /\ clock = 1
    /\ pc = "idle"
    /\ cmd = [NoCall EXCEPT !.len = Len(tags)] @@ [prev |-> NoCall]
    /\ err = "ok"
    /\ loaded = <<>>
    /\ pnchs = <<>>

InitTags == InitTagsFrom(SeqsUpTo(InitTagRecords, MaxInitTags))
InitTagsEmpty == InitTagsFrom({ <<>> })

NextTags == GetOrInsert \/ SaveLoad
SpecTags == InitTags /\ [][NextTags]_vars
SpecTagsEmpty == InitTagsEmpty /\ [][NextTags]_vars

NextTagsAny == GetOrInsertAny \/ SaveLoad
SpecTagsAny == InitTagsEmpty /\ [][NextTagsAny]_vars

\* C12: get_or_insert called twice in a row with the same text returns a
\* tag with the same id both times, and the table is as long after the
\* second call as after the first.
C12_GetOrInsertIdempotent ==
    (/\ cmd.name = "get_or_insert"
     /\ cmd.prev.name = "get_or_insert"
     /\ cmd.prev.text = cmd.text) =>
        /\ cmd.tag.id = cmd.prev.tag.id
        /\ cmd.len = cmd.prev.len

\* the first of the two calls inserted the text into a table that held
\* another tag already
C12_Witness ==
    /\ cmd.name = "get_or_insert"
    /\ cmd.prev.name = "get_or_insert"
    /\ cmd.prev.text = cmd.text
    /\ Len(tags) = 2
    /\ tags[2] = cmd.tag
    /\ tags[1].tag # cmd.text
    /\ tagsDb = TagsSave(SubSeq(tags, 1, 1))

\* C13: starting from the empty table, through any get_or_insert calls and
\* save/load cycles, every tag of the table sits at the index equal to its
\* id, and a tag at index i is there with the same id and text after every
\* later call: none is removed, renamed or renumbered.
C13_TagsAppendOnly ==
    [][/\ \A i \in DOMAIN tags' : tags'[i].id = U32(i - 1)
       /\ \A i \in DOMAIN tags : i \in DOMAIN tags' /\ tags'[i] = tags[i]
      ]_vars

\* a table of three tags has gone through a save/load cycle
C13_Witness ==
    /\ cmd.name = "save_load"
    /\ cmd.prev.name = "get_or_insert"
    /\ Len(tags) = 3
    /\ tagsDb = TagsSave(tags)
    /\ tags[3].id = U32(2)

\* the punch that Pnch::try_from reads back from the record of `pnch`
Reread(pnch, ts) == PnchTryFrom(pnch.id, PnchToBytes(pnch), ts)

\* C14: every punch of the store a command leaves decodes, from its own
\* 92-byte encoding with the same slot id and tag table, to a punch with
\* the same date, in, out, tag and description.
C14_PnchRoundTrip ==
    Ran => \A i \in DOMAIN pnchs : Reread(pnchs[i], tags) = [err |-> "ok", pnch |-> pnchs[i]]

HasNul(text) == \E k \in DOMAIN text : text[k] = 0

\* C15: saving a table that holds a tag whose text contains a zero byte
\* fails with an error and writes nothing; it never writes a record that
\* decodes to a shorter text.
C15_NulTextRefused ==
    [][(/\ cmd'.name = "save_load"
        /\ \E i \in DOMAIN tags : HasNul(tags[i].tag)) =>
            /\ err' # "ok"
            /\ tagsDb' = tagsDb
      ]_vars

(***************************************************************************)
(* main.rs: run, Commands::Ls.  The listing is the store `pnchs` that the  *)
(* two filters leave; nothing is saved.                                    *)
(***************************************************************************)
\* the first filter: the date bounds
LsDateKept(pnch, since, last_as_since, from, to) ==
    /\ ~(DateCmp(pnch.date, since) < 0)
    /\ ~(DateCmp(pnch.date, last_as_since) < 0)
    /\ ~(DateCmp(pnch.date, from) < 0 \/ DateCmp(pnch.date, to) > 0)

\* a second filter that lets a punch with no tag through
LsTagKeptUntagged(pnch, tag) ==
    IsNone(tag) \/ IsNone(pnch.tag) \/ Unwrap(pnch.tag).tag = Unwrap(tag)

\* the second filter: the tag
LsTagKept(pnch, tag) ==
    IF IsNone(tag) THEN TRUE
    ELSE IF IsSome(pnch.tag) THEN Unwrap(pnch.tag).tag = Unwrap(tag)
    ELSE FALSE

UnwrapOr(o, default) == IF IsSome(o) THEN Unwrap(o) ELSE default

LsDateStage(ps, since, last_as_since, from, to) ==
    SelectSeq(ps, LAMBDA pnch : LsDateKept(pnch, since, last_as_since, from, to))
LsTagStage(ps, tag) == SelectSeq(ps, LAMBDA pnch : LsTagKept(pnch, tag))

\* a filter whose rolling window, without --last, is always the default one
LsFilteredDefaultWindow(ps, config, since, last, from, to, tag) ==
    LsTagStage(LsDateStage(ps, UnwrapOr(since, DateMin),
                           ToDateSinceToday(UnwrapOr(last, ConfigDefault.ls_default_period)),
                           UnwrapOr(from, DateMin), UnwrapOr(to, DateMax)),
               tag)

LsFiltered(ps, config, since, last, from, to, tag) ==
    LsTagStage(LsDateStage(ps, UnwrapOr(since, DateMin),
                           ToDateSinceToday(UnwrapOr(last, config.ls_default_period)),
                           UnwrapOr(from, DateMin), UnwrapOr(to, DateMax)),
               tag)

\* a range check that only refuses --from given without --to
LsLoadedFromOnly(ld, cfg, since, last, from, to, tag) ==
    IF ld.err # "ok" THEN Failed(ld.err, ld.pnchs, ld.tags, ld.pnchs)
    ELSE IF IsSome(from) /\ IsNone(to)
        THEN Failed("ls_uncomplete_range", ld.pnchs, ld.tags, ld.pnchs)
    ELSE Outcome("ok", ld.pnchs, ld.tags,
                 LsFiltered(ld.pnchs, cfg.config, since, last, from, to, tag),
                 tagsDb, pnchsDb)

LsLoaded(ld, cfg, since, last, from, to, tag) ==
    IF ld.err # "ok" THEN Failed(ld.err, ld.pnchs, ld.tags, ld.pnchs)
    ELSE IF (IsSome(from) /\ IsNone(to)) \/ (IsNone(from) /\ IsSome(to))
        THEN Failed("ls_uncomplete_range", ld.pnchs, ld.tags, ld.pnchs)
    ELSE Outcome("ok", ld.pnchs, ld.tags,
                 LsFiltered(ld.pnchs, cfg.config, since, last, from, to, tag),
                 tagsDb, pnchsDb)

RunLs(since, last, from, to, tag) ==
    LsLoaded(LoadStores("ok"), ConfigLoaded(configDb, TRUE), since, last, from, to, tag)

LsSinceArgs == {None, Some(Days[2])}
LsLastArgs == {None, Some(MkPeriod("days", 1))}
LsFromArgs == {None, Some(Days[1])}
LsToArgs == {None, Some(Days[2])}
LsTagArgs == {None, Some(StrBug1)}

\* pnch ls
Ls ==
    \E since \in LsSinceArgs, last \in LsLastArgs, from \in LsFromArgs,
       to \in LsToArgs, tag \in LsTagArgs :
        Finish([NoCmd EXCEPT !.name = "ls"]
                    @@ [since |-> since, last |-> last, from |-> from,
                        to |-> to, tag |-> tag],
               RunLs(since, last, from, to, tag))

(***************************************************************************)
(* SpecLs: `pnch ls` on the third day, on a punch file of up to            *)
(* MaxLsRecords closed punches of the three days, untagged or tagged with  *)
(* one of the two tags of the tag file.                                    *)
(***************************************************************************)
MaxLsRecords == 2

LsTags == << MkTag(U32(0), StrBug1), MkTag(U32(1), StrA) >>
LsRecords ==
    { MkPnch(0, date, MkTime(9, 0), Some(MkTime(10, 0)), tag, Some(StrFixedIt)) :
        date \in {Days[1], Days[2], Days[3]},
        tag \in {None, Some(LsTags[1]), Some(LsTags[2])} }

InitLs ==
    /\ tagsDb = TagsSave(LsTags)
    /\ pnchsDb \in { PnchsSave(ps) : ps \in SeqsUpTo(LsRecords, MaxLsRecords) }
    /\ configDb = <<>>
    /\ clock = 3
    /\ NoProcess

NextLs == Ls \/ Exit
SpecLs == InitLs /\ [][NextLs]_vars

\* a listing was produced
Listed == Ran /\ cmd.name = "ls" /\ err = "ok"
InListing(pnch) == \E k \in DOMAIN pnchs : pnchs[k] = pnch
DateGe(a, b) == DateCmp(a, b) >= 0

\* the date bounds given on the command line that the date satisfies
MatchesSince(date) == IsSome(cmd.since) /\ DateGe(date, Unwrap(cmd.since))
MatchesRange(date) ==
    /\ IsSome(cmd.from) /\ IsSome(cmd.to)
    /\ DateGe(date, Unwrap(cmd.from)) /\ DateGe(Unwrap(cmd.to), date)
MatchesLast(date) ==
    IsSome(cmd.last) /\ DateGe(date, Days[clock - PeriodDays(Unwrap(cmd.last))])

\* C16: with no tag filter, a punch whose date satisfies at least one of
\* the date bounds given (since, from..to, last) is in the listing.
C16_DateUnion ==
    (Listed /\ IsNone(cmd.tag)) =>
        \A i \in DOMAIN loaded :
            (\/ MatchesSince(loaded[i].date)
             \/ MatchesRange(loaded[i].date)
             \/ MatchesLast(loaded[i].date)) => InListing(loaded[i])

\* the punches of the loaded store that pass the date bounds of the command
DateSurvivors ==
    LsDateStage(loaded, UnwrapOr(cmd.since, DateMin),
                ToDateSinceToday(UnwrapOr(cmd.last, ConfigLoaded(configDb, TRUE).config.ls_default_period)),
                UnwrapOr(cmd.from, DateMin), UnwrapOr(cmd.to, DateMax))

\* C17: with a tag filter the listing is exactly the punches that pass the
\* date bounds, carry a tag, and whose tag text equals the filter text, so
\* no untagged punch is listed; with no tag filter it is every punch that
\* passes the date bounds.
C17_TagIntersection ==
    Listed =>
        IF IsNone(cmd.tag) THEN pnchs = DateSurvivors
        ELSE /\ pnchs = SelectSeq(DateSurvivors,
                                  LAMBDA p : /\ p.tag # None
                                             /\ p.tag[1].tag = cmd.tag[1])
             /\ \A k \in DOMAIN pnchs : pnchs[k].tag # None

\* a tag filter dropped an untagged punch and a punch of another tag, and
\* kept a punch of the tag asked for
C17_Witness ==
    /\ Listed
    /\ cmd.tag = Some(StrBug1)
    /\ Len(loaded) = 2
    /\ Len(DateSurvivors) = 2
    /\ Len(pnchs) = 1
    /\ \E i \in DOMAIN loaded : loaded[i].tag = None

\* an Out command that gives a description, at a time not before `in`, for
\* an Open punch that carries a description already
OutDescribedTwice ==
    /\ LoadOk /\ cmd.name = "out" /\ Len(loaded) > 0
    /\ IsNone(loaded[Len(loaded)].out)
    /\ IsSome(loaded[Len(loaded)].description)
    /\ IsSome(cmd.description)
    /\ ~TimeLt(cmd.time, loaded[Len(loaded)]._in)

\* C18: punch_out with a description, on an Open punch that already
\* carries one and with a time not before `in`, fails with "description
\* already specified"; the punch keeps its description and tag and stays
\* Open, and the store is as loaded.
C18_DescriptionNotOverwritten ==
    OutDescribedTwice =>
        /\ err = "desc_already_specified"
        /\ pnchs = loaded
        /\ IsNone(pnchs[Len(pnchs)].out)
        /\ pnchs[Len(pnchs)].description = loaded[Len(loaded)].description
        /\ pnchs[Len(pnchs)].tag = loaded[Len(loaded)].tag

C18_Witness ==
    /\ OutDescribedTwice
    /\ err = "desc_already_specified"
    /\ cmd.description = Some(<<>>)
    /\ loaded[Len(loaded)].description = Some(StrFixedIt)
    /\ cmd.time = MkTime(10, 0)

(***************************************************************************)
(* SpecTagFiles: the In and Out commands started on a tag file of any      *)
(* content: whole records, records followed by bytes that do not fill a    *)
(* record, and a record whose text is not UTF-8.                           *)
(***************************************************************************)
TagFileTables == { <<>>, << MkTag(U32(0), StrBug1) >>,
                   << MkTag(U32(0), StrBug1), MkTag(U32(1), StrA) >> }
TagFileTails == { <<>>, << 66 >>, << 1, 0, 0, 0, 66, 85, 71 >> }
StrNotUtf8 == << 200 >>
TagFiles ==
    { TagsSave(ts) \o tail : ts \in TagFileTables, tail \in TagFileTails }
        \cup { TagsSave(<< MkTag(U32(0), StrA), MkTag(U32(1), StrNotUtf8) >>) }

InitTagFiles ==
    /\ tagsDb \in TagFiles
    /\ pnchsDb = <<>>
    /\ configDb = <<>>
    /\ clock = 1
    /\ NoProcess

SpecTagFiles == InitTagFiles /\ [][NextNoEdit]_vars

\* the tag file does not split into records that all decode
TagFileBroken(buffer) ==
    \/ Len(buffer) % TAG_SIZE # 0
    \/ \E k \in 1..(Len(buffer) \div TAG_SIZE) :
            ~FromUtf8Ok(StripZeros(SubSeq(buffer, (k - 1) * TAG_SIZE + TAG_ID_SIZE + 1,
                                          k * TAG_SIZE)))

\* C19: the load of a tag file whose length is not a multiple of 28 bytes,
\* or one of whose 28-byte chunks does not decode, fails and yields no
\* table; no trailing bytes are dropped silently.
C19_TagsLoadAllOrNothing ==
    [][(pc' = "ran" /\ TagFileBroken(tagsDb)) =>
            /\ err' \in {"wrong_byte_len", "from_utf8"}
            /\ tags' = <<>>
            /\ tagsDb' = tagsDb
      ]_vars

(***************************************************************************)
(* SpecConfig: `pnch ls` on the third day with a config file of any        *)
(* length from 0 to 6 bytes, on a store of at most one punch.              *)
(***************************************************************************)
ConfigFiles ==
    { <<>>, << 1 >>, << 1, 14, 0, 0 >>, << 1, 14, 0, 0, 0, 0 >> }
        \cup { << color, days, 0, 0, 0 >> : color \in {0, 1}, days \in {0, 1} }

InitConfig ==
    /\ tagsDb = TagsSave(LsTags)
    /\ pnchsDb \in { PnchsSave(ps) : ps \in SeqsUpTo(LsRecords, 1) }
    /\ configDb \in ConfigFiles
    /\ clock = 3
    /\ NoProcess

SpecConfig == InitConfig /\ [][NextLs]_vars

\* `pnch ls` with no option at all
PlainLs ==
    /\ Ran /\ cmd.name = "ls"
    /\ cmd.since = None /\ cmd.last = None /\ cmd.from = None /\ cmd.to = None
    /\ cmd.tag = None

\* C20: Config::load returns the defaults, print_color true and a default
\* period of 14 days, on an empty file; succeeds on a file of exactly 5
\* bytes; and fails with "wrong byte length" on every other length.  A plain
\* `pnch ls` accordingly lists the last 14 days, lists what the stored
\* period gives, or fails.
C20_ConfigLoad ==
    PlainLs =>
        IF Len(configDb) = 0
        THEN /\ ConfigLoaded(configDb, TRUE).err = "ok"
             /\ ConfigLoaded(configDb, TRUE).config.print_color = TRUE
             /\ PeriodDays(ConfigLoaded(configDb, TRUE).config.ls_default_period) = 14
             /\ err = "ok"
             /\ pnchs = loaded
        ELSE IF Len(configDb) = 5
        THEN /\ ConfigLoaded(configDb, TRUE).err = "ok"
             /\ err = "ok"
             /\ \A i \in DOMAIN loaded :
                    InListing(loaded[i]) <=>
                        DateGe(loaded[i].date, Days[clock - configDb[2]])
        ELSE /\ ConfigLoaded(configDb, TRUE).err = "wrong_byte_len"
             /\ err = "wrong_byte_len"

\* with no config file yet, a plain listing shows a punch of two days ago
C20_Witness ==
    /\ PlainLs
    /\ configDb = <<>>
    /\ err = "ok"
    /\ Len(pnchs) = 1
    /\ pnchs[1].date = Days[1]

(***************************************************************************)
(* config.rs: Config::try_set and Config::save; time.rs: Period::from_str. *)
(* Texts are sequences of bytes.                                           *)
(***************************************************************************)
\* "print-color"
StrPrintColor ==
    << 112, 114, 105, 110, 116, 45, 99, 111, 108, 111, 114 >>
\* "ls-default-period"
StrLsDefaultPeriod ==
    << 108, 115, 45, 100, 101, 102, 97, 117, 108, 116, 45, 112, 101, 114, 105, 111, 100 >>
StrColour == << 99, 111, 108, 111, 117, 114 >>                  \* "colour"
StrTrue == << 116, 114, 117, 101 >>                             \* "true"
StrFalse == << 102, 97, 108, 115, 101 >>                        \* "false"
StrYes == << 121, 101, 115 >>                                   \* "yes"
StrDays == << 100, 97, 121, 115 >>                              \* "days"
StrDay == << 100, 97, 121 >>                                    \* "day"
StrWeeks == << 119, 101, 101, 107, 115 >>                       \* "weeks"
StrWeek == << 119, 101, 101, 107 >>                             \* "week"
StrMonths == << 109, 111, 110, 116, 104, 115 >>                 \* "months"
StrMonth == << 109, 111, 110, 116, 104 >>                       \* "month"
StrYears == << 121, 101, 97, 114, 115 >>                        \* "years"
StrYear == << 121, 101, 97, 114 >>                              \* "year"
Str2Weeks == << 50, 32, 119, 101, 101, 107, 115 >>              \* "2 weeks"
Str3Days == << 51, 32, 100, 97, 121, 115 >>                     \* "3 days"
StrSoon == << 115, 111, 111, 110 >>                             \* "soon"
StrXDays == << 120, 32, 100, 97, 121, 115 >>                    \* "x days"

Space == 32
\* str::split_once(" "): the position of the first space, 0 when none
SplitOnceSpace(str) ==
    IF \E i \in DOMAIN str : str[i] = Space
    THEN CHOOSE i \in DOMAIN str :
            /\ str[i] = Space
            /\ \A j \in 1..(i - 1) : str[j] # Space
    ELSE 0

\* str::parse::<u32>: decimal digits after an optional '+'
IsDigits(str) == Len(str) > 0 /\ \A i \in DOMAIN str : str[i] \in 48..57
RECURSIVE DigitsValue(_)
DigitsValue(str) ==
    IF Len(str) = 0 THEN 0
    ELSE 10 * DigitsValue(SubSeq(str, 1, Len(str) - 1)) + (str[Len(str)] - 48)
Unsigned(str) == IF Len(str) > 0 /\ str[1] = 43 THEN Tail(str) ELSE str
ParseU32(str) ==
    IF IsDigits(Unsigned(str)) THEN [err |-> "ok", value |-> DigitsValue(Unsigned(str))]
    ELSE [err |-> "parse", value |-> 0]

\* Period::from_str, from the count and the period name
PeriodOf(count, period_str) ==
    IF count.err # "ok" THEN [err |-> "parse", period |-> MkPeriod("days", 0)]
    ELSE IF period_str \in {StrDays, StrDay}
        THEN [err |-> "ok", period |-> MkPeriod("days", count.value)]
    ELSE IF period_str \in {StrWeeks, StrWeek}
        THEN [err |-> "ok", period |-> MkPeriod("weeks", count.value)]
    ELSE IF period_str \in {StrMonths, StrMonth}
        THEN [err |-> "ok", period |-> MkPeriod("months", count.value)]
    ELSE IF period_str \in {StrYears, StrYear}
        THEN [err |-> "ok", period |-> MkPeriod("years", count.value)]
    ELSE [err |-> "parse", period |-> MkPeriod("days", 0)]
PeriodSplit(value, at) ==
    IF at = 0 THEN PeriodOf(ParseU32(<< 49 >>), value)
    ELSE PeriodOf(ParseU32(SubSeq(value, 1, at - 1)), SubSeq(value, at + 1, Len(value)))
PeriodFromStr(value) == PeriodSplit(value, SplitOnceSpace(value))

\* bool::from_str
BoolFromStr(value) ==
    IF value = StrTrue THEN [err |-> "ok", value |-> TRUE]
    ELSE IF value = StrFalse THEN [err |-> "ok", value |-> FALSE]
    ELSE [err |-> "parse", value |-> FALSE]

\* Period::as_days, which Config::save calls: the period in days
PeriodAsDays(p) == PeriodDays(p)

\* Config::save: the bytes written
\* a save that writes the period's count whatever its unit
ConfigSaveCount(config) ==
    << IF config.print_color THEN 1 ELSE 0 >>
        \o U32ToLeBytes(U32(config.ls_default_period.n))

ConfigSave(config) ==
    << IF config.print_color THEN 1 ELSE 0 >>
        \o U32ToLeBytes(U32(PeriodAsDays(config.ls_default_period)))

ConfigSetPeriod(config, parsed) ==
    IF parsed.err # "ok" THEN [err |-> parsed.err, config |-> config]
    ELSE [err |-> "ok", config |-> [config EXCEPT !.ls_default_period = parsed.period]]
ConfigSetColor(config, parsed) ==
    IF parsed.err # "ok" THEN [err |-> parsed.err, config |-> config]
    ELSE [err |-> "ok", config |-> [config EXCEPT !.print_color = parsed.value]]

\* a try_set that accepts an unknown key and changes nothing
ConfigTrySetIgnoresUnknown(config, key, value) ==
    IF key = StrLsDefaultPeriod THEN ConfigSetPeriod(config, PeriodFromStr(value))
    ELSE IF key = StrPrintColor THEN ConfigSetColor(config, BoolFromStr(value))
    ELSE [err |-> "ok", config |-> config]

\* Config::try_set
ConfigTrySet(config, key, value) ==
    IF key = StrLsDefaultPeriod THEN ConfigSetPeriod(config, PeriodFromStr(value))
    ELSE IF key = StrPrintColor THEN ConfigSetColor(config, BoolFromStr(value))
    ELSE [err |-> "config_invalid_key", config |-> config]

(***************************************************************************)
(* main.rs: run, Commands::Config.  cmd keeps the Config as loaded and as  *)
(* try_set left it.                                                        *)
(***************************************************************************)
StrPlus4Days == << 43, 52, 32, 100, 97, 121, 115 >>             \* "+4 days"
ConfigKeys == {StrPrintColor, StrLsDefaultPeriod, StrColour}
ConfigValues ==
    {StrTrue, StrFalse, StrYes, Str2Weeks, Str3Days, StrWeek, StrMonth,
     StrPlus4Days, StrSoon, StrXDays}

ConfigReturned(c, ld, cfg, set) ==
    /\ pc = "idle"
    /\ pc' = "ran"
    /\ cmd' = c @@ [loadedConfig |-> cfg.config,
                    config |-> IF ld.err = "ok" THEN set.config ELSE cfg.config]
    /\ err' = IF ld.err # "ok" THEN ld.err ELSE set.err
    /\ loaded' = ld.pnchs
    /\ tags' = ld.tags
    /\ pnchs' = ld.pnchs
    /\ configDb' = IF ld.err = "ok" /\ set.err = "ok" THEN ConfigSave(set.config)
                   ELSE configDb
    /\ UNCHANGED <<tagsDb, pnchsDb, clock>>

ConfigWith(c, ld, cfg, key, value) ==
    ConfigReturned(c, ld, cfg, ConfigTrySet(cfg.config, key, value))

\* pnch config <key> <value>
ConfigCmd ==
    \E key \in ConfigKeys, value \in ConfigValues :
        ConfigWith([NoCmd EXCEPT !.name = "config"] @@ [key |-> key, value |-> value],
                   LoadStores("ok"), ConfigLoaded(configDb, TRUE), key, value)

InitConfigSet ==
    /\ tagsDb = <<>>
    /\ pnchsDb = <<>>
    /\ configDb \in { <<>>, << 1 >> }
    /\ clock = 1
    /\ NoProcess

NextConfigSet == ConfigCmd \/ Exit
SpecConfigSet == InitConfigSet /\ [][NextConfigSet]_vars

ConfigRan == Ran /\ cmd.name = "config"

\* C21: try_set with a key other than "print-color" and "ls-default-period"
\* fails with "invalid config key"; and a try_set that fails, on the key or
\* on the value, leaves print_color and ls_default_period as loaded and the
\* config file as it was.
C21_TrySetFails ==
    [][(pc' = "ran" /\ cmd'.name = "config" /\ Len(configDb) \in {0, CONFIG_SIZE}) =>
            /\ (cmd'.key \notin {StrPrintColor, StrLsDefaultPeriod}) =>
                    err' = "config_invalid_key"
            /\ (err' # "ok") =>
                    /\ cmd'.config = cmd'.loadedConfig
                    /\ configDb' = configDb
      ]_vars

\* an unknown key was refused after an earlier command had saved a config
C21_Witness ==
    /\ ConfigRan
    /\ cmd.key = StrColour
    /\ err = "config_invalid_key"
    /\ Len(configDb) = CONFIG_SIZE
    /\ cmd.loadedConfig.print_color = FALSE

(***************************************************************************)
(* SpecStored: the Out and Edit commands on a punch file of up to          *)
(* MaxStoredRecords records written on two different days, in any order.   *)
(***************************************************************************)
MaxStoredRecords == 2

StoredRecords == { p \in LoadRecords : p._in = MkTime(9, 0) }

InitStored ==
    /\ tagsDb = <<>>
    /\ pnchsDb \in { PnchsSave(ps) : ps \in SeqsUpTo(StoredRecords, MaxStoredRecords) }
    /\ configDb = <<>>
    /\ clock = 3
    /\ NoProcess

NextStored == Out \/ Edit \/ Exit
SpecStored == InitStored /\ [][NextStored]_vars

DatesOf(ps) == [i \in DOMAIN ps |-> ps[i].date]

\* C22: an Out or Edit command leaves every punch of the store with the
\* date it was loaded with, and the file it saves holds the same dates.
C22_DateNeverChanges ==
    (LoadOk /\ cmd.name \in {"out", "edit"}) =>
        /\ DatesOf(pnchs) = DatesOf(loaded)
        /\ (err = "ok") => DatesOf(FileRecords(pnchsDb, tags)) = DatesOf(pnchs)

\* an edit of the second punch of a store of two punches of different
\* days, made on a later day
C22_Witness ==
    /\ LoadOk /\ cmd.name = "edit" /\ err = "ok"
    /\ cmd.id = Some(1)
    /\ cmd.in = Some(MkTime(10, 0))
    /\ Len(loaded) = 2
    /\ loaded[1].date # loaded[2].date
    /\ loaded[2].date # DateToday

OneOfFromTo == IsSome(cmd.from) # IsSome(cmd.to)

\* C24: an Ls command whose stores loaded fails with the incomplete-range
\* error, and lists nothing, exactly when one of --from and --to is given
\* without the other; with both or neither it lists.
C24_IncompleteRange ==
    (Ran /\ cmd.name = "ls" /\ LoadOk) =>
        /\ (err = "ls_uncomplete_range") <=> OneOfFromTo
        /\ Listed <=> ~OneOfFromTo

\* --to given without --from on a file of two punches
C24_Witness ==
    /\ Ran /\ cmd.name = "ls" /\ LoadOk
    /\ IsNone(cmd.from) /\ IsSome(cmd.to)
    /\ err = "ls_uncomplete_range"
    /\ Len(loaded) = 2

(***************************************************************************)
(* SpecDecode: Pnchs::load of a punch file of up to MaxDecodeRecords       *)
(* records against a tag table of PNCH_NO_TAG_ID + 1 tags (the table      *)
(* get_or_insert builds from that many different texts).  The table is the *)
(* same in every state: it is the definition DecodeTable, and the variable *)
(* tags stays empty.  The stored tag ids are absent, 0, 1 and 65535.       *)
(***************************************************************************)
MaxDecodeRecords == 2

\* the text of the tag of index i: three printable bytes, different for
\* every index
TagTextOf(i) == << 33 + (i \div 8100), 33 + ((i \div 90) % 90), 33 + (i % 90) >>
TagTable(n) == [k \in 1..n |-> MkTag(U32(k - 1), TagTextOf(k - 1))]
DecodeTable == TagTable(PNCH_NO_TAG_ID + 1)
DecodeTagIds == {0, 1, PNCH_NO_TAG_ID}
DecodeRecords ==
    { MkPnch(0, date, MkTime(9, 0), Some(MkTime(10, 0)), tag, Some(StrFixedIt)) :
        date \in {Days[1], Days[2]},
        tag \in {None} \cup { Some(MkTag(U32(id), TagTextOf(id))) : id \in DecodeTagIds } }

InitDecode ==
    /\ tagsDb = <<>>
    /\ pnchsDb \in { PnchsSave(ps) : ps \in SeqsUpTo(DecodeRecords, MaxDecodeRecords) }
    /\ configDb = <<>>
    /\ clock = 3
    /\ pc = "idle"
    /\ cmd = NoCmd
    /\ err = "ok"
    /\ loaded = <<>>
    /\ tags = <<>>
    /\ pnchs = <<>>

DecodeLoaded(ld) ==
    /\ pc = "idle"
    /\ pc' = "ran"
    /\ cmd' = [NoCmd EXCEPT !.name = "load"]
    /\ err' = ld.err
    /\ loaded' = ld.pnchs
    /\ pnchs' = ld.pnchs
    /\ UNCHANGED <<tagsDb, pnchsDb, configDb, clock, tags>>

\* Pnchs::load(&tags)
Decode == DecodeLoaded(PnchsLoad(pnchsDb, DecodeTable, TRUE))

\* the loaded punches are dropped
Drop ==
    /\ pc = "ran"
    /\ pc' = "idle"
    /\ cmd' = NoCmd
    /\ err' = "ok"
    /\ loaded' = <<>>
    /\ pnchs' = <<>>
    /\ UNCHANGED <<tagsDb, pnchsDb, configDb, clock, tags>>

NextDecode == Decode \/ Drop
SpecDecode == InitDecode /\ [][NextDecode]_vars

\* the tag id stored in the record of slot k (from 0) of the punch file
StoredTagId(k) ==
    U32FromLeBytes(SubSeq(pnchsDb, k * PNCH_SIZE + DATE_SIZE + 2 * TIME_SIZE + 1,
                          k * PNCH_SIZE + DATE_SIZE + 2 * TIME_SIZE + TAG_ID_SIZE))

\* C25: a punch without tag is stored with the tag id 0xFFFFFFFF, a stored
\* id 0xFFFFFFFF loads as no tag, and every stored id that is an index of
\* the tag table, 65535 included, loads as the tag at that index.
C25_TagSentinel ==
    (pc = "ran" /\ cmd.name = "load" /\ err = "ok") =>
        \A j \in DOMAIN pnchs :
            /\ IsNone(pnchs[j].tag) =>
                 SubSeq(PnchToBytes(pnchs[j]), DATE_SIZE + 2 * TIME_SIZE + 1,
                        DATE_SIZE + 2 * TIME_SIZE + TAG_ID_SIZE)
                     = << U8Max, U8Max, U8Max, U8Max >>
            /\ (StoredTagId(pnchs[j].id) = U32Max) => IsNone(pnchs[j].tag)
            /\ U32Below(StoredTagId(pnchs[j].id), Len(DecodeTable)) =>
                 pnchs[j].tag = Some(DecodeTable[U32AsIndex(StoredTagId(pnchs[j].id)) + 1])

(***************************************************************************)
(* SpecWindow: `pnch ls` on 2026-01-02 with no configuration file or with  *)
(* a stored default period of 0, 1, 14 or 15 days, on a punch file of up   *)
(* to MaxWindowRecords punches of 15, 14 and 0 days ago.                   *)
(***************************************************************************)
MaxWindowRecords == 2

\* the sixteen days that end today: 2025-12-18 .. 2025-12-31, then Days[2]
\* and Days[3]
Calendar == [k \in 1..14 |-> MkDate(2025, 12, 17 + k)] \o << Days[2], Days[3] >>
DaysAgo(n) == Calendar[Len(Calendar) - n]

WindowRecords ==
    { MkPnch(0, date, MkTime(9, 0), Some(MkTime(10, 0)), tag, Some(StrFixedIt)) :
        date \in {DaysAgo(15), DaysAgo(14), DaysAgo(0)},
        tag \in {None, Some(LsTags[1])} }
WindowConfigFiles == { << 1, days, 0, 0, 0 >> : days \in {0, 1, 14, 15} } \cup { <<>> }

InitWindow ==
    /\ tagsDb = TagsSave(LsTags)
    /\ pnchsDb \in { PnchsSave(ps) : ps \in SeqsUpTo(WindowRecords, MaxWindowRecords) }
    /\ configDb \in WindowConfigFiles
    /\ clock = 3
    /\ NoProcess

SpecWindow == InitWindow /\ [][NextLs]_vars

\* the day count of the stored default period, 14 when nothing is stored
StoredPeriodDays == IF Len(configDb) = 0 THEN 14 ELSE configDb[2]

IdsOf(ps) == { ps[i].id : i \in DOMAIN ps }
DistinctIds(ps) == \A i, j \in DOMAIN ps : ps[i].id = ps[j].id => i = j

\* C27: in every run whose stores loaded, the loaded punches carry the ids
\* 0..N-1, each being the record of the file slot of its id; the punches
\* of the store keep pairwise different ids through the command; and the
\* punch a successful In appends has the id N.
C27_IdsAreSlots ==
    [][(pc' = "ran" /\ LoadOk') =>
            /\ IdsOf(loaded') = 0..(Len(loaded') - 1)
            /\ Len(loaded') = Len(pnchsDb) \div PNCH_SIZE
            /\ \A i \in DOMAIN loaded' :
                   loaded'[i] = FileRecords(pnchsDb, TagsLoad(tagsDb, TRUE).tags)[loaded'[i].id + 1]
            /\ DistinctIds(pnchs')
            /\ (cmd'.name = "in" /\ err' = "ok") =>
                   /\ Len(pnchs') = Len(loaded') + 1
                   /\ pnchs'[Len(pnchs')].id = Len(loaded')
      ]_vars

\* an In on a file of two punches that the sort had put in the other order
C27_Witness ==
    /\ LoadOk /\ cmd.name = "in" /\ err = "ok"
    /\ Len(loaded) = 2
    /\ loaded[1].id = 1
    /\ loaded[2].id = 0
    /\ pnchs[3].id = 2

OutFailures ==
    {"pnch_already_closed", "pnch_out_before_in", "desc_already_specified",
     "desc_not_specified"}

\* C28: when the Out command fails with one of the four errors of
\* Pnch::out, every punch of the store, the last one included, has the id,
\* date, in, out, tag and description it was loaded with.
C28_FailedOutChangesNothing ==
    (LoadOk /\ cmd.name = "out" /\ err \in OutFailures) => pnchs = loaded

\* an Out with an untagged description on an open punch that already has
\* a tag and a description
C28_Witness ==
    /\ LoadOk /\ cmd.name = "out" /\ err = "desc_already_specified"
    /\ cmd.description = Some(<<>>)
    /\ IsSome(loaded[Len(loaded)].tag)
    /\ IsSome(loaded[Len(loaded)].description)
    /\ IsNone(loaded[Len(loaded)].out)

\* the failure conditions of Pnch::out, read on the last punch as loaded
\* and on the arguments of the Out command
LastLoaded == loaded[Len(loaded)]
IsClosed == IsSome(LastLoaded.out)
IsBeforeIn == TimeLt(cmd.time, LastLoaded._in)
IsDescribedTwice == IsSome(cmd.description) /\ IsSome(LastLoaded.description)
IsUndescribed == IsNone(cmd.description) /\ IsNone(LastLoaded.description)

\* C29: an Out command on a store that has a last punch fails with
\* "already closed" when the punch is closed; else with "out before in" when
\* the time is before the punch's in; else with "description already
\* specified" when both the command and the punch have a description; else
\* with "description not specified" when neither has one; and with none of
\* these four errors otherwise.
C29_OutErrorPrecedence ==
    (LoadOk /\ cmd.name = "out" /\ Len(loaded) > 0) =>
        IF IsClosed THEN err = "pnch_already_closed"
        ELSE IF IsBeforeIn THEN err = "pnch_out_before_in"
        ELSE IF IsDescribedTwice THEN err = "desc_already_specified"
        ELSE IF IsUndescribed THEN err = "desc_not_specified"
        ELSE err \notin OutFailures

\* the first three conditions hold at once
C29_Witness ==
    /\ LoadOk /\ cmd.name = "out" /\ Len(loaded) > 0
    /\ IsClosed /\ IsBeforeIn /\ IsDescribedTwice
    /\ err = "pnch_already_closed"

(***************************************************************************)
(* SpecRefs: In, Out and Edit from empty stores, with descriptions that    *)
(* carry no tag or one of two tags, up to MaxPnchs punches.                *)
(***************************************************************************)
StrAFixedIt == StrA \o << Slash >> \o StrFixedIt                \* "A/fixed it"
RefDescriptions == {Some(StrFixedIt), Some(StrBug1FixedIt), Some(StrAFixedIt)}

InRefs ==
    /\ StoredPnchs < MaxPnchs
    /\ \E description \in {None} \cup RefDescriptions :
        Finish([NoCmd EXCEPT !.name = "in", !.description = description,
                             !.time = MkTime(9, 0)],
               RunIn(description, MkTime(9, 0), "ok"))

OutRefs ==
    \E description \in {None} \cup RefDescriptions :
        Finish([NoCmd EXCEPT !.name = "out", !.description = description,
                             !.time = MkTime(10, 0)],
               RunOut(description, MkTime(10, 0), "ok"))

EditRefs ==
    \E description \in RefDescriptions,
       id \in {None} \cup {Some(i) : i \in 0..(StoredPnchs - 1)} :
        Finish([NoCmd EXCEPT !.name = "edit", !.description = description, !.id = id],
               RunEdit(description, id, None, None, "ok"))

NextRefs == InRefs \/ OutRefs \/ EditRefs \/ Exit
SpecRefs == Init /\ [][NextRefs]_vars

\* the tag table as Tags::load reads it from the tag file
StoredTags == TagsLoad(tagsDb, TRUE).tags

\* C30: in every run, each punch of the store that has a tag holds the id
\* and text of the tag table's entry at that id; in the files, each punch
\* record stores either the id of no tag or the index of a tag record that
\* carries that id; and after a successful command the saved records
\* resolve to the tags the punches hold in memory.
C30_TagsResolve ==
    /\ (Ran /\ LoadOk) =>
            \A i \in DOMAIN pnchs :
                IsSome(pnchs[i].tag) => TagsGet(tags, Unwrap(pnchs[i].tag).id) = pnchs[i].tag
    /\ TagsLoad(tagsDb, TRUE).err = "ok"
    /\ \A k \in 0..(StoredPnchs - 1) :
            \/ StoredTagId(k) = U32Max
            \/ /\ IsSome(TagsGet(StoredTags, StoredTagId(k)))
               /\ Unwrap(TagsGet(StoredTags, StoredTagId(k))).id = StoredTagId(k)
    /\ (Ran /\ LoadOk /\ err = "ok") =>
            /\ StoredTags = tags
            /\ \A i \in DOMAIN pnchs : FileRecords(pnchsDb, StoredTags)[i].tag = pnchs[i].tag

\* an edit gives the second tag of the table to a punch that had the first
C30_Witness ==
    /\ LoadOk /\ cmd.name = "edit" /\ err = "ok"
    /\ Len(tags) = 2
    /\ \E i \in DOMAIN pnchs :
            /\ loaded[i].tag = Some(tags[1])
            /\ pnchs[i].tag = Some(tags[2])
    /\ \E j \in DOMAIN pnchs : pnchs[j].tag = Some(tags[1])

(***************************************************************************)
(* SpecBroken: In, Out and Edit on stores found with one tag and one       *)
(* punch, where each of the three files may be one that does not load: a   *)
(* tag text or a description that is not UTF-8, a configuration of one     *)
(* byte.                                                                   *)
(***************************************************************************)
BrokenTagFiles ==
    { TagsSave(<< MkTag(U32(0), StrBug1) >>),
      TagsSave(<< MkTag(U32(0), StrBug1), MkTag(U32(1), StrNotUtf8) >>) }
BrokenPnchFiles ==
    { PnchsSave(<< MkPnch(0, Days[1], MkTime(9, 0), out,
                          Some(MkTag(U32(0), StrBug1)), Some(description)) >>) :
        out \in {None, Some(MkTime(10, 0))},
        description \in {StrFixedIt, StrNotUtf8} }
BrokenConfigFiles == { <<>>, << 1 >>, << 1, 1, 0, 0, 0 >> }

InitBroken ==
    /\ tagsDb \in BrokenTagFiles
    /\ pnchsDb \in BrokenPnchFiles
    /\ configDb \in BrokenConfigFiles
    /\ clock = 1
    /\ NoProcess

SpecBroken == InitBroken /\ [][NextRefs]_vars

\* the error of the first of the three loads that fails on the files,
\* "ok" when all three succeed
LoadError ==
    IF TagsLoad(tagsDb, TRUE).err # "ok" THEN TagsLoad(tagsDb, TRUE).err
    ELSE IF PnchsLoad(pnchsDb, StoredTags, TRUE).err # "ok"
        THEN PnchsLoad(pnchsDb, StoredTags, TRUE).err
    ELSE ConfigLoad(configDb, TRUE)

\* C31: a command run on files of which one does not load fails with the
\* error of the first failing load, tags then punches then configuration;
\* it leaves the three files as they were, and the tags and punches in
\* memory are those the loads gave.
C31_LoadFailureTouchesNothing ==
    [][(pc' = "ran" /\ LoadError # "ok") =>
            /\ err' = LoadError
            /\ tagsDb' = tagsDb /\ pnchsDb' = pnchsDb /\ configDb' = configDb
            /\ tags' = StoredTags
            /\ pnchs' = (IF TagsLoad(tagsDb, TRUE).err # "ok" THEN <<>>
                         ELSE PnchsLoad(pnchsDb, StoredTags, TRUE).pnchs)
      ]_vars

\* an Out with a new tag on an open punch, the configuration file being of
\* one byte
C31_Witness ==
    /\ Ran /\ cmd.name = "out" /\ err = "wrong_byte_len"
    /\ cmd.description = Some(StrAFixedIt)
    /\ Len(configDb) = 1
    /\ Len(pnchs) = 1 /\ IsNone(pnchs[1].out)
    /\ Len(tags) = 1

(***************************************************************************)
(* SpecDangling: In, Out and Edit on a punch file of up to                 *)
(* MaxDanglingRecords records whose stored tag ids are absent, 0, 1 or 5,  *)
(* with a tag file of no tag or of one tag.  The records that store the    *)
(* ids 1 and 5 are those described "B".                                    *)
(***************************************************************************)
MaxDanglingRecords == 2

DanglingTagIds == {1, 5}
DanglingRecords ==
    { MkPnch(0, Days[1], MkTime(9, 0), out, tag, Some(StrFixedIt)) :
        out \in {None, Some(MkTime(10, 0))},
        tag \in {None, Some(MkTag(U32(0), StrBug1))} }
    \cup
    { MkPnch(0, Days[1], MkTime(9, 0), out, Some(MkTag(U32(id), StrBug1)), Some(StrB)) :
        out \in {None, Some(MkTime(10, 0))},
        id \in DanglingTagIds }

InitDangling ==
    /\ tagsDb \in { <<>>, TagsSave(<< MkTag(U32(0), StrBug1) >>) }
    /\ pnchsDb \in { PnchsSave(ps) : ps \in SeqsUpTo(DanglingRecords, MaxDanglingRecords) }
    /\ configDb = <<>>
    /\ clock = 1
    /\ NoProcess

SpecDangling == InitDangling /\ [][NextRefs]_vars

\* the record of slot k stores a tag id that is not 0xFFFF and is no index
\* of the tag table of the tag file
IsDangling(k) ==
    /\ StoredTagId(k) # U32(PNCH_NO_TAG_ID)
    /\ ~U32Below(StoredTagId(k), Len(StoredTags))

\* C32: the load of a punch file with a record whose stored tag id is not
\* 0xFFFF and is out of the bounds of the tag table succeeds, the punch of
\* that record has no tag, and when the command saves the store the record
\* of that punch, unless the command gave it a tag, stores the tag id
\* 0xFFFFFFFF.
C32_DanglingTagDropped ==
    [][(pc' = "ran") =>
            /\ err' \notin {"from_utf8", "wrong_byte_len", "fs"}
            /\ \A i \in DOMAIN loaded' :
                   IsDangling(loaded'[i].id) =>
                       /\ IsNone(loaded'[i].tag)
                       /\ (err' = "ok" /\ IsNone(pnchs'[i].tag)) =>
                              StoredTagId(i - 1)' = U32Max
      ]_vars

\* an In on a file of two closed punches, the first described "B" and so
\* stored with a tag id 1 or 5, the second with the tag id 0, the tag table
\* having one tag
C32_Witness ==
    /\ Ran /\ cmd.name = "in" /\ err = "ok"
    /\ Len(loaded) = 2 /\ Len(tags) = 1
    /\ loaded[1].description = Some(StrB)
    /\ IsNone(loaded[1].tag) /\ IsSome(loaded[2].tag)
    /\ StoredTagId(0) = U32Max

====
